---- MODULE Spec2Model ----
(***************************************************************************)
(* Model of the two scripts of WA_MACE_FT.                                 *)
(*                                                                         *)
(*   scripts/caco3_MD.py         the molecular-dynamics script: velocity   *)
(*                               initialisation, removal of the centre-of- *)
(*                               mass velocity, the Bussi dynamics object, *)
(*                               its two observers and dyn.run(n_steps).   *)
(*   scripts/model_evaulation.py the batch evaluation loop.                *)
(*                                                                         *)
(* The script statements are the actions; pc is the line the script is     *)
(* about to execute.  dyn.attach / dyn.run are calls into ase.md: run is   *)
(* unfolded into the loop of ase's Dynamics.irun (observers are called     *)
(* once at nsteps = 0, then after every integrator step), one action per   *)
(* observer call and per integrator step.                                  *)
(*                                                                         *)
(* Numbers: momenta are exact rationals momenta[i].num / momDen; the       *)
(* rounding of float64 is not modelled.  One Cartesian coordinate is kept: *)
(* numpy's sum(axis=0) and broadcasting treat the three coordinates        *)
(* independently and identically.                                          *)
(***************************************************************************)
EXTENDS Integers, Sequences, FiniteSets, TLC

VARIABLES
    pc,          \* script position of caco3_MD.py ("L53" .. "done" / "failed")
    err,         \* exception that left the script uncaught, or "none"
    masses,      \* CaCO3.get_masses(): one mass per atom
    momenta,     \* CaCO3.get_momenta(): numerators (or NaN), one per atom
    momDen,      \* common denominator of the momenta
    n_steps,     \* n_steps                     (line 58)
    dInt,        \* interval of printenergy     (line 60)
    tInt,        \* interval of traj.write      (line 63)
    nsteps,      \* dyn.nsteps
    max_steps,   \* dyn.max_steps
    observers,   \* dyn.observers
    obsIdx,      \* position in dyn.observers inside call_observers
    sysver,      \* number of integrator updates applied to CaCO3
    failedAt,    \* step index during which the integrator raised, else 0
    trajOpen,    \* the trajectory file handle is open
    store,       \* records of the trajectory file
    calls,       \* history: completed integrator steps and callback calls
    bpc,         \* position of model_evaulation.py
    berr,        \* exception that left the batch script uncaught, or "none"
    argv,        \* command-line tokens
    sizes,       \* args.training_set_sizes
    idx,         \* loop position (1-based) in args.training_set_sizes
    sys_argv,    \* sys.argv as set by eval_mace
    evalCalls,   \* history: sys.argv at every call of mace_eval_configs_main
    evalPrints   \* number of "Evaluating test set..." lines printed

mdVars == <<pc, err, masses, momenta, momDen, n_steps, dInt, tInt, nsteps,
            max_steps, observers, obsIdx, sysver, failedAt, trajOpen, store,
            calls>>
batchVars == <<bpc, berr, argv, sizes, idx, sys_argv, evalCalls, evalPrints>>
vars == <<mdVars, batchVars>>

(***************************************************************************)
(* Bounds of the model.                                                    *)
(***************************************************************************)
MaxSteps == 4      \* n_steps and the intervals range over 1..MaxSteps
MaxAtoms == 3      \* atoms of a system given to remove_COM_velocity
MaxMass  == 2      \* masses range over 0..MaxMass
MaxMom   == 2      \* initial momenta range over -MaxMom..MaxMom
MBMom    == 1      \* momenta drawn by MaxwellBoltzmannDistribution
MaxArgs  == 3      \* command-line arguments of the batch script

T_init == 600

(***************************************************************************)
(* Arithmetic helpers.                                                     *)
(***************************************************************************)
RECURSIVE SumSeq(_)
SumSeq(s) == IF s = <<>> THEN 0 ELSE Head(s) + SumSeq(Tail(s))

SeqsUpTo(S, n) == UNION {[1..k -> S] : k \in 0..n}

Mom(n) == [nan |-> FALSE, num |-> n]
NaN    == [nan |-> TRUE, num |-> 0]

Nums(ps) == [i \in DOMAIN ps |-> ps[i].num]
HasNaN(ps) == \E i \in DOMAIN ps : ps[i].nan

(***************************************************************************)
(* caco3_MD.py                                                             *)
(***************************************************************************)

\* The structures the full script is run on: empty, massless, one atom,
\* two atoms.
RunSystems == {<<>>, <<0>>, <<2>>, <<1, 2>>, <<0, 0>>}

MDIdle ==
    /\ err = "none" /\ momDen = 1
    /\ nsteps = 0 /\ max_steps = 0 /\ observers = <<>> /\ obsIdx = 0
    /\ sysver = 0 /\ failedAt = 0 /\ trajOpen = FALSE /\ store = <<>>
    /\ calls = <<>>

BatchIdle ==
    /\ bpc = "off" /\ berr = "none" /\ argv = <<>> /\ sizes = <<>>
    /\ idx = 0 /\ sys_argv = <<>> /\ evalCalls = <<>> /\ evalPrints = 0

\* State at line 53: the structure is read, it carries no momenta yet.
Init ==
    /\ pc = "L53"
    /\ masses \in RunSystems
    /\ momenta = [i \in DOMAIN masses |-> Mom(0)]
    /\ n_steps \in 1..MaxSteps
    /\ dInt \in 1..MaxSteps
    /\ tInt \in 1..MaxSteps
    /\ MDIdle
    /\ BatchIdle

\* MaxwellBoltzmannDistribution(CaCO3, temperature_K=T_init): momentum
\* xi * sqrt(mass * kB * T), xi random: zero when mass * T is zero.
MBMomenta(ms) ==
    {ps \in [DOMAIN ms -> {Mom(n) : n \in -MBMom..MBMom}] :
        \A i \in DOMAIN ms : (ms[i] * T_init = 0) => ps[i] = Mom(0)}

MaxwellBoltzmann ==
    /\ pc = "L53"
    /\ momenta' \in MBMomenta(masses)
    /\ pc' = "L54"
    /\ UNCHANGED <<err, masses, momDen, n_steps, dInt, tInt, nsteps, max_steps,
                   observers, obsIdx, sysver, failedAt, trajOpen, store, calls>>
    /\ UNCHANGED batchVars

\* remove_COM_velocity, lines 44-48.  The result has denominator den * M.
\* With total_mass = 0 numpy divides by zero without raising (inf or nan),
\* and (inf or nan) * 0 is nan for every atom.
total_momentum(ps) == SumSeq(Nums(ps))
total_mass(ms) == SumSeq(ms)

\* mutant: the mean is taken over the number of atoms, not the total mass
remove_COM_velocity_ByCount(ms, ps, den) ==
    LET P == total_momentum(ps)
        M == Len(ms)
    IN  IF M = 0
        THEN [momenta |-> [i \in DOMAIN ps |-> NaN], den |-> den]
        ELSE [momenta |-> [i \in DOMAIN ps |-> Mom(ps[i].num * M - ms[i] * P)],
              den |-> den * M]

remove_COM_velocity(ms, ps, den) ==
    LET P == total_momentum(ps)
        M == total_mass(ms)
    IN  IF M = 0
        THEN [momenta |-> [i \in DOMAIN ps |-> NaN], den |-> den]
        ELSE [momenta |-> [i \in DOMAIN ps |-> Mom(ps[i].num * M - ms[i] * P)],
              den |-> den * M]

RemoveCOM ==
    /\ pc = "L54"
    /\ LET r == remove_COM_velocity(masses, momenta, momDen)
       IN  /\ momenta' = r.momenta
           /\ momDen' = r.den
    /\ pc' = "L57"
    /\ UNCHANGED <<err, masses, n_steps, dInt, tInt, nsteps, max_steps,
                   observers, obsIdx, sysver, failedAt, trajOpen, store, calls>>
    /\ UNCHANGED batchVars


\* dyn = Bussi(CaCO3, 1 * units.fs, T_init, 0.01), line 57: a fresh dynamics
\* object, no step taken, no observer attached.
BussiInit ==
    /\ pc = "L57"
    /\ nsteps' = 0
    /\ max_steps' = 0
    /\ observers' = <<>>
    /\ pc' = "L60"
    /\ UNCHANGED <<err, masses, momenta, momDen, n_steps, dInt, tInt, obsIdx,
                   sysver, failedAt, trajOpen, store, calls>>
    /\ UNCHANGED batchVars

\* mutant: the observer is put in front of the ones already attached
AttachFirst(obs, fn, interval) ==
    <<[fn |-> fn, interval |-> interval]>> \o obs

\* dyn.attach(function, interval): the observer is added after the ones
\* already attached.
Attach(obs, fn, interval) ==
    Append(obs, [fn |-> fn, interval |-> interval])

\* dyn.attach(printenergy, interval = 1000), line 60
AttachReporter ==
    /\ pc = "L60"
    /\ observers' = Attach(observers, "printenergy", dInt)
    /\ pc' = "L62"
    /\ UNCHANGED <<err, masses, momenta, momDen, n_steps, dInt, tInt, nsteps,
                   max_steps, obsIdx, sysver, failedAt, trajOpen, store, calls>>
    /\ UNCHANGED batchVars

\* traj = Trajectory(path, 'w', CaCO3), line 62: the file is opened for
\* writing and truncated.
OpenTrajectory ==
    /\ pc = "L62"
    /\ trajOpen' = TRUE
    /\ store' = <<>>
    /\ pc' = "L63"
    /\ UNCHANGED <<err, masses, momenta, momDen, n_steps, dInt, tInt, nsteps,
                   max_steps, observers, obsIdx, sysver, failedAt, calls>>
    /\ UNCHANGED batchVars

\* line 62 when the path cannot be opened for writing: the error leaves the
\* script.
OpenTrajectoryRaise ==
    /\ pc = "L62"
    /\ err' = "IOError"
    /\ pc' = "failed"
    /\ UNCHANGED <<masses, momenta, momDen, n_steps, dInt, tInt, nsteps,
                   max_steps, observers, obsIdx, sysver, failedAt, trajOpen,
                   store, calls>>
    /\ UNCHANGED batchVars

\* dyn.attach(traj.write, interval = 10), line 63
AttachRecorder ==
    /\ pc = "L63"
    /\ observers' = Attach(observers, "traj.write", tInt)
    /\ pc' = "L64"
    /\ UNCHANGED <<err, masses, momenta, momDen, n_steps, dInt, tInt, nsteps,
                   max_steps, obsIdx, sysver, failedAt, trajOpen, store, calls>>
    /\ UNCHANGED batchVars

\* printenergy, lines 34-40: the energies are divided by len(a); nothing of
\* the system is changed.
CanPrintEnergy(ms) == Len(ms) > 0
PrintEnergyErrors(ms) ==
    IF Len(ms) = 0 THEN {"ZeroDivisionError"} ELSE {"CalculatorError"}

Event(fn, step, inrun) == [fn |-> fn, step |-> step, inrun |-> inrun]

\* printenergy(), line 64: the call the script makes itself before the run
PrintEnergyCall ==
    /\ pc = "L64"
    /\ CanPrintEnergy(masses)
    /\ calls' = Append(calls, Event("printenergy", nsteps, FALSE))
    /\ pc' = "L65"
    /\ UNCHANGED <<err, masses, momenta, momDen, n_steps, dInt, tInt, nsteps,
                   max_steps, observers, obsIdx, sysver, failedAt, trajOpen,
                   store>>
    /\ UNCHANGED batchVars

PrintEnergyCallRaise ==
    /\ pc = "L64"
    /\ err' \in PrintEnergyErrors(masses)
    /\ pc' = "failed"
    /\ UNCHANGED <<masses, momenta, momDen, n_steps, dInt, tInt, nsteps,
                   max_steps, observers, obsIdx, sysver, failedAt, trajOpen,
                   store, calls>>
    /\ UNCHANGED batchVars

\* dyn.run(n_steps), line 65, entry: max_steps = nsteps + steps, then the
\* observers are called for the initial state (nsteps = 0).
RunStart ==
    /\ pc = "L65"
    /\ max_steps' = nsteps + n_steps
    /\ obsIdx' = 1
    /\ pc' = "observers"
    /\ UNCHANGED <<err, masses, momenta, momDen, n_steps, dInt, tInt, nsteps,
                   observers, sysver, failedAt, trajOpen, store, calls>>
    /\ UNCHANGED batchVars

\* mutant: an observer is not called for the initial state
DueAfterStart(interval, n) == n > 0 /\ n % interval = 0

\* call_observers: an observer attached with interval > 0 is called when
\* nsteps % interval == 0.
Due(interval, n) == n % interval = 0

\* an observer that is not due is passed over
ObserverSkip ==
    /\ pc = "observers"
    /\ obsIdx <= Len(observers)
    /\ ~Due(observers[obsIdx].interval, nsteps)
    /\ obsIdx' = obsIdx + 1
    /\ UNCHANGED <<pc, err, masses, momenta, momDen, n_steps, dInt, tInt,
                   nsteps, max_steps, observers, sysver, failedAt, trajOpen,
                   store, calls>>
    /\ UNCHANGED batchVars

\* printenergy called as an observer
ObserverReport ==
    /\ pc = "observers"
    /\ obsIdx <= Len(observers)
    /\ observers[obsIdx].fn = "printenergy"
    /\ Due(observers[obsIdx].interval, nsteps)
    /\ CanPrintEnergy(masses)
    /\ calls' = Append(calls, Event("printenergy", nsteps, TRUE))
    /\ obsIdx' = obsIdx + 1
    /\ UNCHANGED <<pc, err, masses, momenta, momDen, n_steps, dInt, tInt,
                   nsteps, max_steps, observers, sysver, failedAt, trajOpen,
                   store>>
    /\ UNCHANGED batchVars

ObserverReportRaise ==
    /\ pc = "observers"
    /\ obsIdx <= Len(observers)
    /\ observers[obsIdx].fn = "printenergy"
    /\ Due(observers[obsIdx].interval, nsteps)
    /\ err' \in PrintEnergyErrors(masses)
    /\ pc' = "failed"
    /\ UNCHANGED <<masses, momenta, momDen, n_steps, dInt, tInt, nsteps,
                   max_steps, observers, obsIdx, sysver, failedAt, trajOpen,
                   store, calls>>
    /\ UNCHANGED batchVars

\* mutant: every write starts the file again
RecorderRewrite(st, rec) == <<rec>>

\* traj.write(): the snapshot of the current system becomes the next record
RecorderWrite(st, rec) == Append(st, rec)

Snapshot == [step |-> nsteps, ver |-> sysver]

\* traj.write called as an observer
ObserverRecord ==
    /\ pc = "observers"
    /\ obsIdx <= Len(observers)
    /\ observers[obsIdx].fn = "traj.write"
    /\ Due(observers[obsIdx].interval, nsteps)
    /\ trajOpen
    /\ store' = RecorderWrite(store, Snapshot)
    /\ calls' = Append(calls, Event("traj.write", nsteps, TRUE))
    /\ obsIdx' = obsIdx + 1
    /\ UNCHANGED <<pc, err, masses, momenta, momDen, n_steps, dInt, tInt,
                   nsteps, max_steps, observers, sysver, failedAt, trajOpen>>
    /\ UNCHANGED batchVars

\* traj.write raises (storage exhausted): the error leaves dyn.run and the
\* script; nothing closes the file.
ObserverRecordRaise ==
    /\ pc = "observers"
    /\ obsIdx <= Len(observers)
    /\ observers[obsIdx].fn = "traj.write"
    /\ Due(observers[obsIdx].interval, nsteps)
    /\ err' = "IOError"
    /\ pc' = "failed"
    /\ UNCHANGED <<masses, momenta, momDen, n_steps, dInt, tInt, nsteps,
                   max_steps, observers, obsIdx, sysver, failedAt, trajOpen,
                   store, calls>>
    /\ UNCHANGED batchVars

\* mutant: the loop takes one step too many
MoreStepsInclusive(n, max) == n <= max

\* loop condition of the run: nsteps < max_steps
MoreSteps(n, max) == n < max

\* all observers have been considered and steps remain
NextStep ==
    /\ pc = "observers"
    /\ obsIdx > Len(observers)
    /\ MoreSteps(nsteps, max_steps)
    /\ pc' = "step"
    /\ UNCHANGED <<err, masses, momenta, momDen, n_steps, dInt, tInt, nsteps,
                   max_steps, observers, obsIdx, sysver, failedAt, trajOpen,
                   store, calls>>
    /\ UNCHANGED batchVars

\* all observers have been considered and no step remains: dyn.run returns;
\* it is the last statement of the script.
RunReturn ==
    /\ pc = "observers"
    /\ obsIdx > Len(observers)
    /\ ~MoreSteps(nsteps, max_steps)
    /\ pc' = "done"
    /\ UNCHANGED <<err, masses, momenta, momDen, n_steps, dInt, tInt, nsteps,
                   max_steps, observers, obsIdx, sysver, failedAt, trajOpen,
                   store, calls>>
    /\ UNCHANGED batchVars

\* one integrator step: the system is advanced, then nsteps += 1, then the
\* observers are called.
IntegratorStep ==
    /\ pc = "step"
    /\ sysver' = sysver + 1
    /\ nsteps' = nsteps + 1
    /\ calls' = Append(calls, Event("step", nsteps + 1, TRUE))
    /\ obsIdx' = 1
    /\ pc' = "observers"
    /\ UNCHANGED <<err, masses, momenta, momDen, n_steps, dInt, tInt,
                   max_steps, observers, failedAt, trajOpen, store>>
    /\ UNCHANGED batchVars

\* mutant: the error of a step is swallowed and the loop goes on
AfterIntegratorErrorSwallowed == "observers"

\* dyn.run(n_steps) is not inside any try: an exception of the integrator
\* leaves dyn.run and ends the script.
AfterIntegratorError == "failed"

\* the integrator raises during step nsteps + 1: the system may already be
\* partly updated, nsteps is not incremented, nothing is restored.
IntegratorRaise ==
    /\ pc = "step"
    /\ failedAt' = nsteps + 1
    /\ sysver' \in {sysver, sysver + 1}
    /\ err' = "IntegratorError"
    /\ pc' = AfterIntegratorError
    /\ UNCHANGED <<masses, momenta, momDen, n_steps, dInt, tInt, nsteps,
                   max_steps, observers, obsIdx, trajOpen, store, calls>>
    /\ UNCHANGED batchVars

Next ==
    \/ MaxwellBoltzmann
    \/ RemoveCOM
    \/ BussiInit
    \/ AttachReporter
    \/ OpenTrajectory
    \/ OpenTrajectoryRaise
    \/ AttachRecorder
    \/ PrintEnergyCall
    \/ PrintEnergyCallRaise
    \/ RunStart
    \/ ObserverSkip
    \/ ObserverReport
    \/ ObserverReportRaise
    \/ ObserverRecord
    \/ ObserverRecordRaise
    \/ NextStep
    \/ RunReturn
    \/ IntegratorStep
    \/ IntegratorRaise

Spec == Init /\ [][Next]_vars

(***************************************************************************)
(* remove_COM_velocity as a function of an arbitrary system: any masses,   *)
(* any momenta.                                                            *)
(***************************************************************************)
VelInit ==
    /\ pc = "L54"
    /\ masses \in SeqsUpTo(0..MaxMass, MaxAtoms)
    /\ momenta \in [DOMAIN masses -> {Mom(n) : n \in -MaxMom..MaxMom}]
    /\ n_steps = 1 /\ dInt = 1 /\ tInt = 1
    /\ MDIdle
    /\ BatchIdle

VelNext == RemoveCOM

VelSpec == VelInit /\ [][VelNext]_vars


(***************************************************************************)
(* model_evaulation.py.  Strings are sequences of characters.              *)
(***************************************************************************)
Digits == <<"0", "1", "2", "3", "4", "5", "6", "7", "8", "9">>

IsDigit(c) == \E d \in DOMAIN Digits : Digits[d] = c
DigitValue(c) == (CHOOSE d \in DOMAIN Digits : Digits[d] = c) - 1

\* int(token) of argparse's type=int: a non-empty run of decimal digits is
\* accepted, leading zeros included.
IsInt(tok) == Len(tok) > 0 /\ \A i \in DOMAIN tok : IsDigit(tok[i])

RECURSIVE ParseInt(_)
ParseInt(tok) ==
    IF Len(tok) = 0 THEN 0
    ELSE 10 * ParseInt(SubSeq(tok, 1, Len(tok) - 1)) + DigitValue(tok[Len(tok)])

\* str(n) as the f-string formats a non-negative int
RECURSIVE Str(_)
Str(n) ==
    IF n < 10 THEN <<Digits[n + 1]>>
    ELSE Str(n \div 10) \o <<Digits[(n % 10) + 1]>>

\* the tokens a command line is made of: "10", "20", "7", "07", "x"
Tokens == {<<"1", "0">>, <<"2", "0">>, <<"7">>, <<"0", "7">>, <<"x">>}

ConfigsPath ==
    <<"/", "h", "o", "m", "e", "/", "j", "h", "2", "5", "3", "6", "/", "r",
      "d", "s", "/", "h", "p", "c", "-", "w", "o", "r", "k", "/", "t", "r",
      "a", "i", "n", "i", "n", "g", "_", "v", "a", "l", "_", "s", "e", "t",
      "s", "/", "v", "a", "l", "i", "d", "a", "t", "i", "o", "n", "_", "s",
      "e", "t", "_", "1", "0", "0", "_", "r", "e", "v", "P", "B", "E", "_",
      "D", "3", ".", "x", "y", "z">>

ModelPrefix ==
    <<"/", "h", "o", "m", "e", "/", "j", "h", "2", "5", "3", "6", "/", "s",
      "c", "r", "a", "t", "c", "h", "_", "m", "a", "c", "e", "/", "m", "o",
      "d", "e", "l", "s", "/", "M", "A", "C", "E", "_", "m", "o", "d", "e",
      "l", "_", "s", "c", "r", "a", "t", "c", "h", "_", "n", "e", "w", "E",
      "0", "s", "_", "r", "e", "v", "P", "B", "E", "_", "D", "3", "_">>

ModelSuffix ==
    <<"_", "s", "t", "a", "g", "e", "t", "w", "o", ".", "m", "o", "d", "e",
      "l">>

OutputPrefix ==
    <<"/", "h", "o", "m", "e", "/", "j", "h", "2", "5", "3", "6", "/", "s",
      "c", "r", "a", "t", "c", "h", "_", "m", "a", "c", "e", "/", "e", "v",
      "a", "l", "u", "a", "t", "i", "o", "n", "/", "o", "u", "t", "p", "u",
      "t", "s", "_", "e", "v", "a", "l", "/", "s", "c", "r", "a", "t", "c",
      "h", "_", "n", "e", "w", "E", "0", "s", "_", "r", "e", "v", "P", "B",
      "E", "_", "D", "3", "_">>

OutputSuffix ==
    <<"_", "e", "v", "a", "l", "_", "t", "e", "s", "t", ".", "x", "y", "z">>

\* model=f"..._revPBE_D3_{training_set_size}_stagetwo.model", line 26
ModelPath(n) == ModelPrefix \o Str(n) \o ModelSuffix

\* mutant: the output path names a fixed training-set size
OutputPathFixed(n) == OutputPrefix \o <<"1", "0", "0">> \o OutputSuffix

\* output=f"..._revPBE_D3_{training_set_size}_eval_test.xyz", line 27
OutputPath(n) == OutputPrefix \o Str(n) \o OutputSuffix

\* sys.argv as eval_mace sets it, line 6
EvalArgv(configs, model, output) ==
    << <<"p", "r", "o", "g", "r", "a", "m">>,
       <<"-", "-", "c", "o", "n", "f", "i", "g", "s">>, configs,
       <<"-", "-", "m", "o", "d", "e", "l">>, model,
       <<"-", "-", "o", "u", "t", "p", "u", "t">>, output >>

ArgvModel(a) == a[5]
ArgvOutput(a) == a[7]

\* the state when the interpreter reaches parser.parse_args(), line 11
BatchInit ==
    /\ bpc = "parse"
    /\ argv \in SeqsUpTo(Tokens, MaxArgs)
    /\ berr = "none" /\ sizes = <<>> /\ idx = 0 /\ sys_argv = <<>>
    /\ evalCalls = <<>> /\ evalPrints = 0
    /\ pc = "off" /\ masses = <<>> /\ momenta = <<>>
    /\ n_steps = 1 /\ dInt = 1 /\ tInt = 1
    /\ MDIdle

\* parser.parse_args() with nargs="+" and type=int, lines 10-11
ParseArgs ==
    /\ bpc = "parse"
    /\ Len(argv) >= 1
    /\ \A i \in DOMAIN argv : IsInt(argv[i])
    /\ sizes' = [i \in DOMAIN argv |-> ParseInt(argv[i])]
    /\ idx' = 1
    /\ bpc' = "loop"
    /\ UNCHANGED <<berr, argv, sys_argv, evalCalls, evalPrints>>
    /\ UNCHANGED mdVars

\* no argument, or one that is no integer: argparse exits with status 2
ParseArgsError ==
    /\ bpc = "parse"
    /\ \/ Len(argv) = 0
       \/ \E i \in DOMAIN argv : ~IsInt(argv[i])
    /\ berr' = "SystemExit"
    /\ bpc' = "usage"
    /\ UNCHANGED <<argv, sizes, idx, sys_argv, evalCalls, evalPrints>>
    /\ UNCHANGED mdVars

\* one iteration of the loop, lines 13-28: the line is printed, eval_mace
\* sets sys.argv and calls mace_eval_configs_main, which returns.
EvalTestSet ==
    /\ bpc = "loop"
    /\ idx <= Len(sizes)
    /\ evalPrints' = evalPrints + 1
    /\ sys_argv' = EvalArgv(ConfigsPath, ModelPath(sizes[idx]),
                            OutputPath(sizes[idx]))
    /\ evalCalls' = Append(evalCalls, sys_argv')
    /\ idx' = idx + 1
    /\ UNCHANGED <<bpc, berr, argv, sizes>>
    /\ UNCHANGED mdVars

\* mutant: the error of one evaluation is caught and the loop goes on
AfterEvalErrorCaught == "loop"

\* the loop body is not inside any try: an exception of
\* mace_eval_configs_main leaves the loop and ends the script.
AfterEvalError == "failed"

\* one iteration in which mace_eval_configs_main raises
EvalTestSetRaise ==
    /\ bpc = "loop"
    /\ idx <= Len(sizes)
    /\ evalPrints' = evalPrints + 1
    /\ sys_argv' = EvalArgv(ConfigsPath, ModelPath(sizes[idx]),
                            OutputPath(sizes[idx]))
    /\ evalCalls' = Append(evalCalls, sys_argv')
    /\ berr' = "ExternalEvaluationFailure"
    /\ bpc' = AfterEvalError
    /\ UNCHANGED <<argv, sizes, idx>>
    /\ UNCHANGED mdVars

\* the list is exhausted: the script ends
BatchEnd ==
    /\ bpc = "loop"
    /\ idx > Len(sizes)
    /\ bpc' = "done"
    /\ UNCHANGED <<berr, argv, sizes, idx, sys_argv, evalCalls, evalPrints>>
    /\ UNCHANGED mdVars

BatchNext ==
    \/ ParseArgs
    \/ ParseArgsError
    \/ EvalTestSet
    \/ EvalTestSetRaise
    \/ BatchEnd

BatchSpec == BatchInit /\ [][BatchNext]_vars


(***************************************************************************)
(* The script when no library call raises: every statement that is reached *)
(* is executed (one thread, no suspension), hence weak fairness.           *)
(***************************************************************************)
QuietNext ==
    \/ MaxwellBoltzmann
    \/ RemoveCOM
    \/ BussiInit
    \/ AttachReporter
    \/ OpenTrajectory
    \/ AttachRecorder
    \/ PrintEnergyCall
    \/ RunStart
    \/ ObserverSkip
    \/ ObserverReport
    \/ ObserverRecord
    \/ NextStep
    \/ RunReturn
    \/ IntegratorStep

QuietSpec == Init /\ [][QuietNext]_vars /\ WF_vars(QuietNext)

(***************************************************************************)
(* Properties.                                                             *)
(***************************************************************************)
InRunCalls(fn) ==
    Cardinality({i \in DOMAIN calls : calls[i].fn = fn /\ calls[i].inrun})

Finished == pc = "done"

C2_IntegratorErrorHalts ==
    failedAt > 0 =>
        /\ pc = "failed"
        /\ err = "IntegratorError"
        /\ failedAt \in 1..n_steps
        /\ nsteps = failedAt - 1
        /\ \A i \in DOMAIN calls : calls[i].step < failedAt
        /\ \A i \in DOMAIN store : store[i].step < failedAt
        /\ sysver >= failedAt - 1

C2_Witness ==
    /\ failedAt = 3
    /\ pc = "failed"
    /\ sysver = 3
    /\ Len(store) >= 2

\* C3: on every exit path of the script, normal or by an error, the
\* trajectory file opened at line 62 has been closed.
C3_StoreReleasedOnExit ==
    (pc \in {"done", "failed"}) => ~trajOpen

StoreOrdered ==
    \A i, j \in DOMAIN store : i < j => store[i].step <= store[j].step

StoreAppendOnly ==
    \/ store' = store
    \/ /\ Len(store') = Len(store) + 1
       /\ SubSeq(store', 1, Len(store)) = store
       /\ store'[Len(store')].step = nsteps

\* C4: the records of the trajectory store are in non-decreasing step
\* order, and every step of the script leaves the store as it is or adds
\* exactly one record at its end.
C4_AppendOnlyStore == [] StoreOrdered /\ [][StoreAppendOnly]_vars

C4_Witness ==
    /\ Len(store) >= 3
    /\ store[1].step < store[2].step
    /\ store[2].step < store[3].step

\* C5: a run in which nothing raises ends in "done" with nsteps = n_steps;
\* on the way nsteps changes only by +1.
C5_RunCompletes ==
    /\ (pc = "L65") ~> (Finished /\ nsteps = n_steps /\ err = "none")
    /\ [](Finished => nsteps = n_steps)
    /\ [][nsteps' = nsteps \/ nsteps' = nsteps + 1]_vars

C5_Witness ==
    /\ Finished
    /\ n_steps = 4
    /\ nsteps = 4
    /\ sysver = 4

COMRemoved ==
    (pc = "L57" /\ Len(masses) > 0 /\ total_mass(masses) > 0) =>
        /\ ~HasNaN(momenta)
        /\ total_momentum(momenta) = 0

COMStep ==
    (pc = "L54" /\ pc' = "L57" /\ total_mass(masses) > 0) =>
        \A i \in DOMAIN masses :
            /\ ~momenta'[i].nan
            /\ momenta'[i].num * momDen * total_mass(masses) =
                 (momenta[i].num * total_mass(masses)
                    - masses[i] * total_momentum(momenta)) * momDen'

\* C6: for a non-empty system of positive total mass, remove_COM_velocity
\* leaves momenta whose sum is zero, each momentum having been reduced by
\* mass * (total momentum / total mass).
C6_ZeroTotalMomentum == [] COMRemoved /\ [][COMStep]_vars

C6_Witness ==
    /\ pc = "L57"
    /\ Len(masses) = 3
    /\ masses[1] # masses[2]
    /\ momDen > 1
    /\ \E i \in DOMAIN momenta : momenta[i].num # 0
    /\ total_momentum(momenta) = 0

InvalidConfiguration ==
    T_init <= 0 \/ Len(masses) = 0 \/ total_mass(masses) = 0

\* C7: with a target temperature <= 0, no particle or zero total mass, the
\* initializer fails with InvalidConfiguration and the driver never steps.
C7_InvalidConfigurationRejected ==
    InvalidConfiguration =>
        /\ pc \in {"L53", "L54", "failed"}
        /\ pc = "failed" => err = "InvalidConfiguration"
        /\ sysver = 0

Contains(str, sub) ==
    \E i \in 1..(Len(str) - Len(sub) + 1) :
        SubSeq(str, i, i + Len(sub) - 1) = sub

\* C8: with k >= 1 integer sizes and no failing evaluation, the evaluation
\* entry point is called exactly k times, in the order of the arguments,
\* the i-th call's model path and output path containing the i-th size.
C8_OneEvaluationPerSize ==
    bpc = "done" =>
        /\ Len(sizes) = Len(argv)
        /\ Len(evalCalls) = Len(sizes)
        /\ evalPrints = Len(sizes)
        /\ \A i \in DOMAIN evalCalls :
            /\ sizes[i] = ParseInt(argv[i])
            /\ Contains(ArgvModel(evalCalls[i]), Str(sizes[i]))
            /\ Contains(ArgvOutput(evalCalls[i]), Str(sizes[i]))

C8_Witness ==
    /\ bpc = "done"
    /\ sizes = <<10, 20>>
    /\ Len(evalCalls) = 2
    /\ Contains(ArgvOutput(evalCalls[2]), <<"2", "0">>)
    /\ ~Contains(ArgvOutput(evalCalls[2]), <<"1", "0">>)

\* C9: when the evaluation of the i-th size raises, the error leaves the
\* script: the sizes 1..i have been evaluated once each, in order, and no
\* later size is evaluated.
C9_FailureAbortsBatch ==
    berr = "ExternalEvaluationFailure" =>
        /\ bpc = "failed"
        /\ idx \in DOMAIN sizes
        /\ Len(evalCalls) = idx
        /\ \A j \in 1..idx :
            ArgvModel(evalCalls[j]) = ModelPrefix \o Str(sizes[j]) \o ModelSuffix

C9_Witness ==
    /\ berr = "ExternalEvaluationFailure"
    /\ bpc = "failed"
    /\ Len(sizes) = 3
    /\ idx = 2
    /\ Len(evalCalls) = 2

\* the order in which the script attaches its observers, lines 60 and 63
AttachOrder == <<"printenergy", "traj.write">>
OrderOf(fn) == CHOOSE k \in DOMAIN AttachOrder : AttachOrder[k] = fn

IsCallback(e) == e.inrun /\ e.fn # "step"

CalledInAttachOrder ==
    \A i, j \in DOMAIN calls :
        (i < j /\ IsCallback(calls[i]) /\ IsCallback(calls[j])
              /\ calls[i].step = calls[j].step)
            => OrderOf(calls[i].fn) < OrderOf(calls[j].fn)

ReportThenRecord ==
    (dInt % tInt = 0) =>
        \A i \in DOMAIN calls :
            (calls[i].fn = "printenergy" /\ calls[i].inrun) =>
                IF i < Len(calls)
                THEN /\ calls[i + 1] = Event("traj.write", calls[i].step, TRUE)
                     /\ \E r \in DOMAIN store : store[r].step = calls[i].step
                ELSE \/ pc = "observers" /\ obsIdx = 2
                        /\ observers[obsIdx].fn = "traj.write"
                     \/ pc = "failed" /\ err = "IOError"

\* C10: the callbacks of one step are called in the order of attachment
\* (printenergy, then traj.write); when the Recorder's interval divides the
\* Reporter's, an emission of the Reporter inside the run at step s is
\* directly followed by the Recorder's append for step s: otherwise the
\* Recorder is the next thing to run, or its write has raised.
C10_AttachOrder == CalledInAttachOrder /\ ReportThenRecord

C10_Witness ==
    /\ Finished
    /\ dInt = 4 /\ tInt = 2 /\ n_steps = 4
    /\ \E i \in DOMAIN calls :
        /\ i < Len(calls)
        /\ calls[i] = Event("printenergy", 4, TRUE)
        /\ calls[i + 1] = Event("traj.write", 4, TRUE)

====
